---- MODULE Spec2Model ----
(***************************************************************************)
(* Model of the Nifty options-chain extractor (src/chains.py), the Greeks  *)
(* validation report (src/validation.py) and the pricing core they call    *)
(* (module greeks_calculator, described by spec.md sections 3, 4 and 7).   *)
(*                                                                         *)
(* Units.  Volatility is an integer number of 1e-5 (0.15 is 15000, 5.0 is  *)
(* 500000).  An IV column of the chain holds hundredths of a percent       *)
(* (12.35 % is 1235).  Time to expiry is an integer number of minutes      *)
(* (one year is 525600).  Prices are whole rupees.  A risk-free rate is an *)
(* integer number of basis points (10 % is 1000).                          *)
(***************************************************************************)
EXTENDS Integers, Sequences, FiniteSets, TLC

VARIABLES
    \* one expiry of NiftyOptionsChain.run: build_options_chain, export, report;
    \* expiry_minus_now is the expiry instant minus datetime.now(), in minutes
    pc, strikes, instruments, spot_price, expiry_minus_now, time_to_expiry,
    quotes, idx, data, calls, csv, success_count, error_count,
    \* one run of the implied-volatility solver
    sol_in, sol,
    \* one call of identify_expiries
    ex_pc, ex_in, ex_out,
    \* the loops of NiftyOptionsChain.run over the expiries; expiry_pos is the
    \* position of the running for loop in its list, attempted the log of the
    \* expiries the loops have taken up
    run_pc, weekly_expiries, monthly_expiries, expiry_pos, current_idx,
    created_files, attempted,
    \* one call of fetch_market_data; batch_start is the loop variable i,
    \* responses the log of what kite.quote answered per batch
    fe_pc, instrument_keys, batch_start, all_quotes, responses

chainVars == <<pc, strikes, instruments, spot_price, expiry_minus_now,
               time_to_expiry, quotes, idx, data, calls, csv, success_count,
               error_count>>
solverVars == <<sol_in, sol>>
expiryVars == <<ex_pc, ex_in, ex_out>>
runVars == <<run_pc, weekly_expiries, monthly_expiries, expiry_pos,
             current_idx, created_files, attempted>>
fetchVars == <<fe_pc, instrument_keys, batch_start, all_quotes, responses>>
vars == <<chainVars, solverVars, expiryVars, runVars, fetchVars>>

Max(a, b) == IF a >= b THEN a ELSE b
Min(a, b) == IF a <= b THEN a ELSE b
Abs(a) == IF a >= 0 THEN a ELSE 0 - a

(***************************************************************************)
(* Bounds of the model.                                                    *)
(***************************************************************************)
\* longest strikes list handed to build_options_chain
MaxStrikes == 2
\* most distinct expiry dates in the instrument list of identify_expiries
MaxExpiries == 3
\* days of a month the expiry dates and today are drawn from: 1..MaxDay
MaxDay == 3
\* most full batches of instrument keys handed to fetch_market_data
MaxBatches == 3

(***************************************************************************)
(* TimeBasis (spec.md 4.1): the year fraction, here in minutes, clamped to *)
(* a positive floor of one minute when the expiry is at or before the      *)
(* reference instant.                                                      *)
(***************************************************************************)
MinutesPerYear == 525600
TimeFloor == 1

YearFractionUnfloored(expiry_minus_reference) == expiry_minus_reference
get_time_to_expiry(expiry_minus_reference) ==
    IF expiry_minus_reference <= 0 THEN TimeFloor ELSE expiry_minus_reference

(***************************************************************************)
(* AnalyticPricer (spec.md 4.2) in integer arithmetic.  The closed form is *)
(* replaced by its at-the-money expansion                                  *)
(*     price ~ max(intrinsic, m/2 + 0.4 * S * sigma * sqrt(T))             *)
(* with m the discounted moneyness (S - K e^{-rT} for a call, its negative *)
(* for a put).  It keeps what the solver depends on: the price does not    *)
(* decrease in sigma, it is flat (zero vega) for contracts deep in or out  *)
(* of the money at low volatility, and it fails with InvalidInput unless   *)
(* S, K, sigma and T are all strictly positive.                            *)
(***************************************************************************)
VolUnit == 100000

RECURSIVE SqrtBetween(_, _, _)
SqrtBetween(n, lo, hi) ==
    IF hi - lo <= 1 THEN lo
    ELSE LET mid == (lo + hi) \div 2
         IN  IF mid * mid <= n THEN SqrtBetween(n, mid, hi)
                               ELSE SqrtBetween(n, lo, mid)

ISqrt(n) == SqrtBetween(n, 0, 1024)

\* K * e^{-rT} to first order: K - K*r*T
DiscountedStrike(K, T, r) == K - (((K * r) \div 10000) * T) \div MinutesPerYear

Moneyness(S, K, T, r, option_type) ==
    IF option_type = "CE" THEN S - DiscountedStrike(K, T, r)
                          ELSE DiscountedStrike(K, T, r) - S

\* rupees of time value per 1.0 of volatility: 0.4 * S * sqrt(T / year)
VolCoefficient(S, T) == (2 * S * ISqrt(T)) \div (5 * ISqrt(MinutesPerYear))

TimeValue(S, T, sigma) == (VolCoefficient(S, T) * sigma) \div VolUnit

InvalidInput(S, K, T, sigma) == S <= 0 \/ K <= 0 \/ T <= 0 \/ sigma <= 0

price(S, K, T, sigma, r, option_type) ==
    LET m == Moneyness(S, K, T, r, option_type)
    IN  Max(Max(m, 0), (m \div 2) + TimeValue(S, T, sigma))

\* whether the price at sigma is on its rising branch
Rising(S, K, T, sigma, r, option_type) ==
    LET m == Moneyness(S, K, T, r, option_type)
    IN  (m \div 2) + TimeValue(S, T, sigma) > Max(m, 0)

\* d price / d sigma, per unit volatility
vega(S, K, T, sigma, r, option_type) ==
    IF Rising(S, K, T, sigma, r, option_type) THEN VolCoefficient(S, T) ELSE 0

(***************************************************************************)
(* ImpliedVolatilitySolver (spec.md 4.4): Newton-Raphson with a bisection  *)
(* fallback.  A solver state is a record                                   *)
(*   state      Initializing, Iterating, FallbackBisection, Converged,     *)
(*              Diverged, or InvalidInput (the precondition failure)       *)
(*   value      the current iterate, the returned volatility when terminal *)
(*   iterations loop passes made so far                                    *)
(*   lo, hi     the bisection bracket                                      *)
(***************************************************************************)
VolSeed == 20000
VolLower == 100
VolUpper == 500000
IterationCap == 100
PriceTolerance == 1
VegaFloor == 1
\* the rate the core uses when a caller passes none (kite_config.RISK_FREE_RATE)
RISK_FREE_RATE == 1000

ClampAbsent(sigma) == sigma
\* step 5: the clamp into [0.001, 5.0]
Clamp(sigma) == Max(VolLower, Min(VolUpper, sigma))

SolverStates == {"Initializing", "Iterating", "FallbackBisection",
                 "Converged", "Diverged", "InvalidInput"}
Terminal == {"Converged", "Diverged"}

SolverInitial ==
    [state |-> "Initializing", value |-> 0, iterations |-> 0,
     lo |-> VolLower, hi |-> VolUpper]

\* step 1 and 2: the precondition check, then the seed
SolverPrecondition(in, st) ==
    IF in.market_price <= 0 \/ in.time_to_expiry <= TimeFloor
    THEN [st EXCEPT !.state = "InvalidInput"]
    ELSE [st EXCEPT !.state = "Iterating", !.value = VolSeed]

CapNeverReached(st) == FALSE
\* step 6: the iteration cap
CapReached(st) == st.iterations >= IterationCap

\* steps 3, 4, 5 and 6: one pass of the Newton-Raphson loop
NewtonStep(in, st) ==
    LET p == price(in.spot, in.strike, in.time_to_expiry, st.value,
                   in.risk_free_rate, in.option_type)
        v == vega(in.spot, in.strike, in.time_to_expiry, st.value,
                  in.risk_free_rate, in.option_type)
        residual == p - in.market_price
    IN  IF CapReached(st)
        THEN [st EXCEPT !.state = "Diverged"]
        ELSE IF Abs(residual) < PriceTolerance
        THEN [st EXCEPT !.state = "Converged", !.iterations = @ + 1]
        ELSE IF Abs(v) < VegaFloor
        THEN [st EXCEPT !.state = "FallbackBisection", !.iterations = @ + 1]
        ELSE [st EXCEPT !.value = Clamp(@ - ((residual * VolUnit) \div v)),
                        !.iterations = @ + 1]

BracketEdgeRaises(st, boundary) == [st EXCEPT !.state = "InvalidInput"]
\* the edge policy: NumericalNonConvergence with the boundary volatility
BracketEdge(st, boundary) ==
    [st EXCEPT !.state = "Diverged", !.value = boundary]

\* step 4 and the edge policy: one pass of the bisection over [lo, hi]
BisectionStep(in, st) ==
    LET P(sigma) == price(in.spot, in.strike, in.time_to_expiry, sigma,
                          in.risk_free_rate, in.option_type)
        mid == (st.lo + st.hi) \div 2
        residual == P(mid) - in.market_price
    IN  IF P(st.lo) > in.market_price
        THEN BracketEdge(st, st.lo)
        ELSE IF P(st.hi) < in.market_price
        THEN BracketEdge(st, st.hi)
        ELSE IF CapReached(st)
        THEN [st EXCEPT !.state = "Diverged"]
        ELSE IF Abs(residual) < PriceTolerance
        THEN [st EXCEPT !.state = "Converged", !.value = mid,
                        !.iterations = @ + 1]
        ELSE IF residual < 0
        THEN [st EXCEPT !.lo = mid, !.value = mid, !.iterations = @ + 1]
        ELSE [st EXCEPT !.hi = mid, !.value = mid, !.iterations = @ + 1]

SolverStep(in, st) ==
    CASE st.state = "Initializing" -> SolverPrecondition(in, st)
      [] st.state = "Iterating" -> NewtonStep(in, st)
      [] st.state = "FallbackBisection" -> BisectionStep(in, st)
      [] OTHER -> st

RECURSIVE SolverRun(_, _)
SolverRun(in, st) ==
    IF st.state \in Terminal \cup {"InvalidInput"} THEN st
    ELSE SolverRun(in, SolverStep(in, st))

\* solve(observation, inputs): the VolatilityEstimate, or InvalidInput raised
solve(market_price, spot, strike, T, option_type, r) ==
    SolverRun([market_price |-> market_price, spot |-> spot, strike |-> strike,
               time_to_expiry |-> T, option_type |-> option_type,
               risk_free_rate |-> r], SolverInitial)

(***************************************************************************)
(* GreeksEngine (spec.md 4.3) on the same expansion: phi(d1) is 0.4 on the *)
(* rising branch and 0 off it, Phi(d1) is 1/2 on it and 0 or 1 off it.     *)
(* delta is in 1e-4, vega in rupees per unit volatility, theta in rupees   *)
(* per day.  It fails with InvalidInput like the pricer.                   *)
(***************************************************************************)
greeks(S, K, T, sigma, r, option_type) ==
    LET m == Moneyness(S, K, T, r, option_type)
        rising == Rising(S, K, T, sigma, r, option_type)
        cdf == IF rising THEN 5000 ELSE IF m > 0 THEN 10000 ELSE 0
        carry == (((K * r) \div 10000) * cdf) \div (10000 * 365)
        decay == (TimeValue(S, T, sigma) * 1440) \div (2 * T)
    IN  [delta |-> IF option_type = "CE" THEN cdf ELSE 0 - cdf,
         gamma |-> IF rising
                   THEN 4000000 \div
                        Max(1, (S \div 100) * (sigma \div 100) * ISqrt(T))
                   ELSE 0,
         vega |-> vega(S, K, T, sigma, r, option_type),
         theta |-> IF option_type = "CE" THEN 0 - decay - carry
                                         ELSE carry - decay]

(***************************************************************************)
(* Python values: a dict is a function on its keys, None or a value is a   *)
(* sequence of length 0 or 1.                                              *)
(***************************************************************************)
EmptyDict == [k \in {} |-> 0]
None == <<>>
Get(d, k, default) == IF k \in DOMAIN d THEN d[k] ELSE default

\* round(x, 0) of n / d, ties to even, as Python rounds
RoundHalfEven(n, d) ==
    LET q == n \div d
        rem == n % d
    IN  IF 2 * rem < d THEN q
        ELSE IF 2 * rem > d THEN q + 1
        ELSE IF q % 2 = 0 THEN q ELSE q + 1

(***************************************************************************)
(* NiftyOptionsChain.build_options_chain                                   *)
(***************************************************************************)
\* chains.py:433 and 489, the default volatility for the Greeks: 15 %
DefaultVol == 15000

\* chains.py:431, round(iv * 100, 2): volatility to hundredths of a percent
Percentage(iv) == RoundHalfEven(iv, 10)

\* chains.py:412, the quote key of an instrument
QuoteKey(inst) == <<"NFO", inst.tradingsymbol>>

\* chains.py:399-402, next((inst for inst in instruments if ...), None)
RECURSIVE FirstInstrument(_, _, _)
FirstInstrument(insts, strike, option_type) ==
    IF insts = <<>> THEN None
    ELSE IF Head(insts).strike = strike
            /\ Head(insts).instrument_type = option_type
    THEN <<Head(insts)>>
    ELSE FirstInstrument(Tail(insts), strike, option_type)

\* chains.py:404-408, the row's Expiry_Date; a row without the key reads
\* back as NaN from the DataFrame
ExpiryDateOf(ce_inst, pe_inst) ==
    IF ce_inst # None THEN ce_inst[1].expiry
    ELSE IF pe_inst # None THEN pe_inst[1].expiry
    ELSE "NaN"

\* chains.py:459-464 and 515-520
ZeroSide ==
    [OI |-> 0, Change_in_OI |-> 0, Volume |-> 0, IV |-> 0, LTP |-> 0,
     Change |-> 0, Bid_Qty |-> 0, Bid_Price |-> 0, Ask_Price |-> 0,
     Ask_Qty |-> 0, Delta |-> 0, Gamma |-> 0, Vega |-> 0, Theta |-> 0]

\* chains.py:437-439, depth.get(side, [{}])[0] if depth.get(side) else {}
BestLevel(depth, side) ==
    IF Get(depth, side, <<>>) # <<>> THEN depth[side][1] ELSE EmptyDict

SolverGuardWithoutPrice(ltp, T) == T > 0
\* chains.py:423 and 479
SolverGuard(ltp, T) == ltp > 0 /\ T > 0

\* a call into the pricing core, as build_options_chain makes it: no
\* risk_free_rate keyword (chains.py:424-430, 447-453)
CoreCall(fn, caller, S, K, T, option_type, market_price, volatility, rate,
         outcome, value) ==
    [fn |-> fn, caller |-> caller, spot |-> S, strike |-> K,
     time_to_expiry |-> T, option_type |-> option_type,
     market_price |-> market_price, volatility |-> volatility,
     risk_free_rate |-> rate, outcome |-> outcome, value |-> value]

\* chains.py:431-457 (CE) and 487-513 (PE): the columns of one side, the
\* core calls made, and whether one of them raised, given the quote and
\* what the solver returned (est, read only when the solver was called)
SideColumns(quote, S, K, T, option_type, solved, est) ==
    LET ltp == Get(quote, "last_price", 0)
        iv_call == CoreCall("calculate_implied_volatility",
                            "build_options_chain", S, K, T, option_type, ltp,
                            0, None, est.state, est.value)
        iv == IF solved THEN est.value ELSE DefaultVol
        g == greeks(S, K, T, iv, RISK_FREE_RATE, option_type)
        g_raises == InvalidInput(S, K, T, iv)
        g_call == CoreCall("calculate_all_greeks", "build_options_chain",
                           S, K, T, option_type, 0, iv, None,
                           IF g_raises THEN "InvalidInput" ELSE "ok", 0)
        depth == Get(quote, "depth", EmptyDict)
        buy == BestLevel(depth, "buy")
        sell == BestLevel(depth, "sell")
        columns ==
            [OI |-> Get(quote, "oi", 0),
             Change_in_OI |-> Get(quote, "oi_day_high", 0)
                              - Get(quote, "oi_day_low", 0),
             Volume |-> Get(quote, "volume", 0),
             IV |-> IF solved THEN Percentage(iv) ELSE 0,
             LTP |-> ltp,
             Change |-> Get(quote, "change", 0),
             Bid_Qty |-> Get(buy, "quantity", 0),
             Bid_Price |-> Get(buy, "price", 0),
             Ask_Price |-> Get(sell, "price", 0),
             Ask_Qty |-> Get(sell, "quantity", 0),
             Delta |-> g.delta, Gamma |-> g.gamma, Vega |-> g.vega,
             Theta |-> g.theta]
    IN  IF solved /\ est.state = "InvalidInput"
        THEN [columns |-> ZeroSide, calls |-> <<iv_call>>, raised |-> TRUE]
        ELSE IF g_raises
        THEN [columns |-> ZeroSide,
              calls |-> (IF solved THEN <<iv_call>> ELSE <<>>) \o <<g_call>>,
              raised |-> TRUE]
        ELSE [columns |-> columns,
              calls |-> (IF solved THEN <<iv_call>> ELSE <<>>) \o <<g_call>>,
              raised |-> FALSE]

\* chains.py:411-457 (CE) and 467-513 (PE): one side of a row; the solver
\* is called, once, only under the guard of line 423 (479)
BuildSide(inst, quote_table, S, K, T, option_type) ==
    LET quote == Get(quote_table, QuoteKey(inst), EmptyDict)
        ltp == Get(quote, "last_price", 0)
        solved == SolverGuard(ltp, T)
    IN  CHOOSE side \in
            {SideColumns(quote, S, K, T, option_type, solved, est) :
                est \in {IF solved
                         THEN solve(ltp, S, K, T, option_type, RISK_FREE_RATE)
                         ELSE SolverInitial}} : TRUE

NoSide == [columns |-> ZeroSide, calls |-> <<>>, raised |-> FALSE]

AppendUnlessBare(rows, row) ==
    IF row.Expiry_Date = "NaN" THEN rows ELSE Append(rows, row)
\* chains.py:522, data.append(row)
AppendRow(rows, row) == Append(rows, row)

(***************************************************************************)
(* Inputs of the model.                                                    *)
(***************************************************************************)
OptionTypes == {"CE", "PE"}
SpotChoices == {20000}
StrikeChoices == {19500, 20000, 20500}
\* expiry minus reference instant, minutes: a day past expiry, the expiry
\* instant itself, one day and seven days before expiry
ExpiryOffsets == {0 - 1440, 0, 1440, 10080}
\* the offsets at which a chain is built, and at which its report is made
ChainOffsets == {0 - 1440, 0, 10080}
ReportOffsets == {0, 1440}
\* last traded prices: no trade, and quotes below, inside and above the
\* range of prices the bracket [VolLower, VolUpper] can produce
LtpChoices == {0, 1, 133, 560, 9000}

SolverInputs ==
    [market_price : LtpChoices, spot : SpotChoices, strike : StrikeChoices,
     time_to_expiry : {get_time_to_expiry(d) : d \in ExpiryOffsets},
     option_type : OptionTypes, risk_free_rate : {RISK_FREE_RATE}]

\* the expiry all instruments of one chain share (run filters on it)
ChainExpiry == "27-Nov-2025"

\* quotes the broker may answer for an instrument: never traded, or traded
\* at a last price with one level of depth on each side
NoTrade ==
    [last_price |-> 0, oi |-> 0, oi_day_high |-> 0, oi_day_low |-> 0,
     volume |-> 0, change |-> 0, depth |-> [buy |-> <<>>, sell |-> <<>>]]
Traded(ltp) ==
    [last_price |-> ltp, oi |-> 1200, oi_day_high |-> 1500,
     oi_day_low |-> 1000, volume |-> 30, change |-> 0 - 2,
     depth |-> [buy |-> <<[quantity |-> 75, price |-> ltp - 1]>>,
                sell |-> <<[quantity |-> 150, price |-> ltp + 1]>>]]
ChainLtpChoices == {1, 133}
QuoteChoices == {NoTrade} \cup {Traded(ltp) : ltp \in ChainLtpChoices}

\* the answer to one quote lookup: the key is missing, or a quote
QuoteAnswers(inst) ==
    IF inst = None THEN {None} ELSE {None} \cup {<<q>> : q \in QuoteChoices}

\* strikes lists, up to MaxStrikes long: ascending as get_strike_range makes
\* them, and descending, so that the order of a list is not the order of
\* its strikes
StrikeLists ==
    {sq \in UNION {[1..n -> StrikeChoices] : n \in 0..MaxStrikes} :
        \/ \A a, b \in DOMAIN sq : a < b => sq[a] < sq[b]
        \/ \A a, b \in DOMAIN sq : a < b => sq[a] > sq[b]}

Instrument(strike, option_type) ==
    [strike |-> strike, instrument_type |-> option_type,
     tradingsymbol |-> <<"NIFTY", strike, option_type>>,
     expiry |-> ChainExpiry]

\* the instruments filter_options_by_expiry_and_strikes leaves for a strikes
\* list: any of the CE and PE of its strikes, CE before PE, in list order
RECURSIVE InstrumentList(_, _)
InstrumentList(strike_list, listed) ==
    IF strike_list = <<>> THEN <<>>
    ELSE LET k == Head(strike_list)
         IN  (IF <<k, "CE">> \in listed THEN <<Instrument(k, "CE")>> ELSE <<>>)
             \o (IF <<k, "PE">> \in listed THEN <<Instrument(k, "PE")>> ELSE <<>>)
             \o InstrumentList(Tail(strike_list), listed)

Range(sq) == {sq[n] : n \in DOMAIN sq}

(***************************************************************************)
(* Initial values of the parts a specification does not exercise.          *)
(***************************************************************************)
ChainIdle ==
    /\ pc = "idle" /\ strikes = <<>> /\ instruments = <<>> /\ spot_price = 0
    /\ expiry_minus_now = 0 /\ time_to_expiry = 0 /\ quotes = <<>> /\ idx = 0
    /\ data = <<>> /\ calls = <<>> /\ csv = <<>> /\ success_count = 0
    /\ error_count = 0

SolverIdle ==
    /\ sol_in = [market_price |-> 0, spot |-> 0, strike |-> 0,
                 time_to_expiry |-> 0, option_type |-> "CE",
                 risk_free_rate |-> 0]
    /\ sol = [SolverInitial EXCEPT !.state = "idle"]

ExpiryIdle ==
    /\ ex_pc = "idle"
    /\ ex_in = [expiries |-> {}, today |-> [year |-> 0, month |-> 0, day |-> 0],
                expiry_type |-> "date"]
    /\ ex_out = [weekly |-> <<>>, monthly |-> <<>>]

RunIdle ==
    /\ run_pc = "idle" /\ weekly_expiries = <<>> /\ monthly_expiries = <<>>
    /\ expiry_pos = 0 /\ current_idx = 0 /\ created_files = <<>>
    /\ attempted = <<>>

FetchIdle ==
    /\ fe_pc = "idle" /\ instrument_keys = <<>> /\ batch_start = 0
    /\ all_quotes = <<>> /\ responses = <<>>

(***************************************************************************)
(* SolverSpec: one run of the solver, one loop pass per step.              *)
(***************************************************************************)
SolverInit ==
    /\ sol_in \in SolverInputs
    /\ sol = SolverInitial
    /\ ChainIdle /\ ExpiryIdle /\ RunIdle /\ FetchIdle

SolverBegin ==
    /\ sol.state = "Initializing"
    /\ sol' = SolverStep(sol_in, sol)
    /\ UNCHANGED <<sol_in, chainVars, expiryVars, runVars, fetchVars>>

SolverNewton ==
    /\ sol.state = "Iterating"
    /\ sol' = SolverStep(sol_in, sol)
    /\ UNCHANGED <<sol_in, chainVars, expiryVars, runVars, fetchVars>>

SolverBisect ==
    /\ sol.state = "FallbackBisection"
    /\ sol' = SolverStep(sol_in, sol)
    /\ UNCHANGED <<sol_in, chainVars, expiryVars, runVars, fetchVars>>

SolverNext == SolverBegin \/ SolverNewton \/ SolverBisect

SolverSpec == SolverInit /\ [][SolverNext]_vars

(***************************************************************************)
(* Spec: one expiry of NiftyOptionsChain.run (chains.py:614-643): the      *)
(* chain is built row by row, exported, and the exported file is read by   *)
(* generate_validation_report.  The quote of an instrument is drawn when   *)
(* the loop looks it up; each key is looked up once.                       *)
(***************************************************************************)
Init ==
    /\ pc = "build"
    /\ strikes \in StrikeLists
    /\ \E listed \in SUBSET (Range(strikes) \X OptionTypes) :
          instruments = InstrumentList(strikes, listed)
    /\ spot_price \in SpotChoices
    /\ expiry_minus_now \in ChainOffsets
    /\ time_to_expiry = get_time_to_expiry(expiry_minus_now)
    /\ quotes = EmptyDict
    /\ idx = 1
    /\ data = <<>>
    /\ calls = <<>>
    /\ csv = <<>>
    /\ success_count = 0
    /\ error_count = 0
    /\ SolverIdle /\ ExpiryIdle /\ RunIdle /\ FetchIdle

Reveal(table, inst, answer) ==
    IF inst = None \/ answer = None THEN table
    ELSE (QuoteKey(inst[1]) :> answer[1]) @@ table

\* chains.py:389-522, one pass of the loop over strikes
BuildRow ==
    /\ pc = "build"
    /\ idx <= Len(strikes)
    /\ LET strike == strikes[idx]
           ce_inst == FirstInstrument(instruments, strike, "CE")
           pe_inst == FirstInstrument(instruments, strike, "PE")
       IN  \E ce_answer \in QuoteAnswers(ce_inst),
              pe_answer \in QuoteAnswers(pe_inst) :
             LET table == Reveal(Reveal(quotes, ce_inst, ce_answer),
                                 pe_inst, pe_answer)
             IN  \E ce \in {IF ce_inst = None THEN NoSide
                            ELSE BuildSide(ce_inst[1], table, spot_price,
                                           strike, time_to_expiry, "CE")} :
                 \E pe \in {IF ce.raised \/ pe_inst = None THEN NoSide
                            ELSE BuildSide(pe_inst[1], table, spot_price,
                                           strike, time_to_expiry, "PE")} :
                 LET row == [Underlying_Spot |-> spot_price,
                             Strike_Price |-> strike,
                             Expiry_Date |-> ExpiryDateOf(ce_inst, pe_inst),
                             CE |-> ce.columns, PE |-> pe.columns]
                 IN  /\ quotes' = table
                     /\ calls' = calls \o ce.calls \o pe.calls
                     /\ IF ce.raised \/ pe.raised
                        THEN /\ pc' = "raised"
                             /\ data' = <<>>
                             /\ idx' = idx
                        ELSE /\ pc' = pc
                             /\ data' = AppendRow(data, row)
                             /\ idx' = idx + 1
    /\ UNCHANGED <<strikes, instruments, spot_price, expiry_minus_now,
                   time_to_expiry, csv, success_count, error_count, solverVars,
                   expiryVars, runVars, fetchVars>>

\* chains.py:524, return pd.DataFrame(data)
BuildReturn ==
    /\ pc = "build"
    /\ idx > Len(strikes)
    /\ pc' = "returned"
    /\ UNCHANGED <<strikes, instruments, spot_price, expiry_minus_now,
                   time_to_expiry, quotes, idx, data, calls, csv,
                   success_count, error_count, solverVars, expiryVars, runVars,
                   fetchVars>>

\* chains.py:627-635 and 526-542, the DataFrame is written as a CSV file
ExportToCsv ==
    /\ pc = "returned"
    /\ csv' = data
    /\ success_count' = success_count + 1
    /\ pc' = "exported"
    /\ UNCHANGED <<strikes, instruments, spot_price, expiry_minus_now,
                   time_to_expiry, quotes, idx, data, calls, error_count,
                   solverVars, expiryVars, runVars, fetchVars>>

\* chains.py:641-643, the handler around one expiry
RunExcept ==
    /\ pc = "raised"
    /\ error_count' = error_count + 1
    /\ pc' = "failed"
    /\ UNCHANGED <<strikes, instruments, spot_price, expiry_minus_now,
                   time_to_expiry, quotes, idx, data, calls, csv,
                   success_count, solverVars, expiryVars, runVars, fetchVars>>

\* validation.py:120-125
rates_to_compare == <<1000, 650, 543, 500>>

\* validation.py:20-35, calculate_greeks_with_rate: the rate is passed on
GreeksWithRate(S, K, T, market_iv, option_type, rate) ==
    CoreCall("calculate_all_greeks", "calculate_greeks_with_rate", S, K, T,
             option_type, 0, market_iv, <<rate>>,
             IF InvalidInput(S, K, T, market_iv) THEN "InvalidInput" ELSE "ok",
             0)

\* validation.py:137-146 and 162-171: the calls of one comparison loop, up
\* to and including the first that raises
RECURSIVE ComparisonCalls(_, _, _, _, _, _)
ComparisonCalls(rates, S, K, T, market_iv, option_type) ==
    IF rates = <<>> THEN <<>>
    ELSE LET c == GreeksWithRate(S, K, T, market_iv, option_type, Head(rates))
         IN  IF c.outcome = "InvalidInput" THEN <<c>>
             ELSE <<c>> \o ComparisonCalls(Tail(rates), S, K, T, market_iv,
                                           option_type)

Raised(call_seq) ==
    \E n \in DOMAIN call_seq : call_seq[n].outcome = "InvalidInput"

\* validation.py:102-103, atm_row.get('CE_IV', 0) / 100
ColumnToVolatility(iv_column) == iv_column * 10

\* validation.py:38-250, generate_validation_report on the exported file
GenerateValidationReport ==
    /\ pc = "exported"
    /\ \E offset \in ReportOffsets :
         IF Len(csv) = 0
         THEN pc' = "report_done" /\ calls' = calls
         ELSE LET atm_row == csv[(Len(csv) \div 2) + 1]
                  strike == atm_row.Strike_Price
                  spot == strike
                  T == get_time_to_expiry(offset)
                  ce_iv == ColumnToVolatility(atm_row.CE.IV)
                  pe_iv == ColumnToVolatility(atm_row.PE.IV)
                  ce_calls == ComparisonCalls(rates_to_compare, spot, strike,
                                              T, ce_iv, "CE")
                  pe_calls == ComparisonCalls(rates_to_compare, spot, strike,
                                              T, pe_iv, "PE")
              IN  IF \A n \in DOMAIN csv : csv[n].Expiry_Date = "NaN"
                  THEN pc' = "report_raised" /\ calls' = calls
                  ELSE IF atm_row.Expiry_Date = "NaN"
                  THEN pc' = "report_done" /\ calls' = calls
                  ELSE IF Raised(ce_calls)
                  THEN pc' = "report_raised" /\ calls' = calls \o ce_calls
                  ELSE IF Raised(pe_calls)
                  THEN /\ pc' = "report_raised"
                       /\ calls' = calls \o ce_calls \o pe_calls
                  ELSE /\ pc' = "report_done"
                       /\ calls' = calls \o ce_calls \o pe_calls
    /\ UNCHANGED <<strikes, instruments, spot_price, expiry_minus_now,
                   time_to_expiry, quotes, idx, data, csv, success_count,
                   error_count, solverVars, expiryVars, runVars, fetchVars>>

Next ==
    \/ BuildRow
    \/ BuildReturn
    \/ ExportToCsv
    \/ RunExcept
    \/ GenerateValidationReport

Spec == Init /\ [][Next]_vars

(***************************************************************************)
(* Properties of one expiry (Spec).                                        *)
(***************************************************************************)
\* the core calls build_options_chain has made, and the Greeks calls of all
BuildCalls(fn) ==
    {n \in DOMAIN calls : /\ calls[n].caller = "build_options_chain"
                          /\ calls[n].fn = fn}
GreeksCalls == {n \in DOMAIN calls : calls[n].fn = "calculate_all_greeks"}

SameContract(a, b) == a.strike = b.strike /\ a.option_type = b.option_type

\* the last traded price build_options_chain reads for an instrument
LtpOf(inst) == Get(Get(quotes, QuoteKey(inst), EmptyDict), "last_price", 0)

\* the instruments of the rows the loop has completed
Assembled ==
    {inst \in Range(instruments) :
        \E n \in 1..(idx - 1) :
            /\ strikes[n] = inst.strike
            /\ FirstInstrument(instruments, inst.strike,
                               inst.instrument_type) = <<inst>>}

\* the side of a completed row that an instrument fills
SideOf(rows, inst) ==
    LET row == CHOOSE row \in Range(rows) : row.Strike_Price = inst.strike
    IN  IF inst.instrument_type = "CE" THEN row.CE ELSE row.PE

HasReturned == pc \in {"returned", "exported", "report_done", "report_raised"}
HasEnded == pc \in {"exported", "report_done", "report_raised", "failed"}

\* C1 (as claimed): the solver is not invoked, and the IV column is the
\* marker 0, whenever the last traded price is 0 or the time to expiry is
\* at its floor; in every other case the IV column is the solver's
\* volatility as a percentage.
C1_MarkerWhenNoPriceOrAtFloor ==
    /\ \A n \in BuildCalls("calculate_implied_volatility") :
          /\ calls[n].market_price # 0
          /\ calls[n].time_to_expiry # TimeFloor
    /\ HasReturned =>
          \A inst \in Assembled :
             IF LtpOf(inst) = 0 \/ time_to_expiry = TimeFloor
             THEN SideOf(data, inst).IV = 0
             ELSE \E n \in BuildCalls("calculate_implied_volatility") :
                     /\ calls[n].strike = inst.strike
                     /\ calls[n].option_type = inst.instrument_type
                     /\ SideOf(data, inst).IV = Percentage(calls[n].value)

\* C2 (as claimed): when the solver reports non-convergence for a contract,
\* the Greeks of that contract are computed with the fallback volatility of
\* 15 %, not with the solver's best-effort value.
C2_FallbackWhenNotConverged ==
    \A n \in BuildCalls("calculate_implied_volatility"),
       g \in BuildCalls("calculate_all_greeks") :
        (calls[n].outcome = "Diverged" /\ SameContract(calls[n], calls[g]))
            => calls[g].volatility = DefaultVol

\* C3 (as claimed): when the processing of the chain has ended, also after a
\* solver or Greeks call failed for one contract, the output has one row
\* per strike.
C3_FailedContractKeepsRowCount ==
    HasEnded => Len(csv) = Len(strikes)

\* C4: a contract whose last traded price is 0, its quote missing or not,
\* raises nothing, never reaches the solver, and has its Greeks computed
\* with the default volatility of 15 %.
C4_ZeroPriceUsesDefaultVol ==
    /\ \A n \in BuildCalls("calculate_implied_volatility") :
          calls[n].market_price > 0
    /\ \A inst \in Assembled :
          LtpOf(inst) = 0 =>
             /\ \A n \in BuildCalls("calculate_implied_volatility") :
                   ~ (calls[n].strike = inst.strike
                      /\ calls[n].option_type = inst.instrument_type)
             /\ \E g \in BuildCalls("calculate_all_greeks") :
                   /\ calls[g].strike = inst.strike
                   /\ calls[g].option_type = inst.instrument_type
                   /\ calls[g].volatility = DefaultVol
                   /\ calls[g].outcome = "ok"

\* a chain has returned with an instrument whose quote is missing and one
\* whose quote shows no trade
C4_Witness ==
    /\ HasReturned
    /\ \E inst \in Assembled : QuoteKey(inst) \notin DOMAIN quotes
    /\ \E inst \in Assembled :
          /\ QuoteKey(inst) \in DOMAIN quotes
          /\ LtpOf(inst) = 0

\* C5 (as claimed): every call into the pricing core passes the risk-free
\* rate as an explicit argument.
C5_RateAlwaysExplicit ==
    \A n \in DOMAIN calls : calls[n].risk_free_rate # None

\* C6 (as claimed): no Greeks computation is ever called with a volatility
\* that is 0 or negative.
C6_GreeksVolatilityPositive ==
    \A n \in GreeksCalls : calls[n].volatility > 0

\* C13: the year fraction is strictly positive for every pair of instants:
\* it is the difference expiry - reference when that is positive and the
\* positive floor when the expiry is at or before the reference; so the
\* time_to_expiry build_options_chain works with, and the one of every core
\* call of the chain and of the report, is never <= 0.
C13_YearFractionPositive ==
    pc # "idle" =>
        /\ TimeFloor > 0
        /\ time_to_expiry > 0
        /\ expiry_minus_now > 0 => time_to_expiry = expiry_minus_now
        /\ expiry_minus_now <= 0 => time_to_expiry = TimeFloor
        /\ \A n \in DOMAIN calls : calls[n].time_to_expiry > 0

\* a chain built a day after the expiry instant has returned with Greeks
\* computed at the floor
C13_Witness ==
    /\ HasReturned
    /\ expiry_minus_now < 0
    /\ time_to_expiry = TimeFloor
    /\ \E g \in BuildCalls("calculate_all_greeks") :
          calls[g].time_to_expiry = TimeFloor /\ calls[g].outcome = "ok"

\* C9: when build_options_chain returns, it returns one row per entry of
\* the strikes list, in the order of the list, with the strike as
\* Strike_Price, and the side of a strike that has no CE (PE) instrument is
\* all zeros.
C9_OneRowPerStrikeInOrder ==
    HasReturned =>
        /\ Len(data) = Len(strikes)
        /\ \A n \in DOMAIN strikes :
              /\ data[n].Strike_Price = strikes[n]
              /\ FirstInstrument(instruments, strikes[n], "CE") = None
                    => data[n].CE = ZeroSide
              /\ FirstInstrument(instruments, strikes[n], "PE") = None
                    => data[n].PE = ZeroSide

\* a chain of two strikes has returned, one strike without a CE and one
\* strike with neither instrument
C9_Witness ==
    /\ HasReturned
    /\ Len(strikes) >= 2
    /\ \E n \in DOMAIN strikes :
          /\ FirstInstrument(instruments, strikes[n], "CE") = None
          /\ FirstInstrument(instruments, strikes[n], "PE") # None
    /\ \E n \in DOMAIN strikes :
          /\ FirstInstrument(instruments, strikes[n], "CE") = None
          /\ FirstInstrument(instruments, strikes[n], "PE") = None

(***************************************************************************)
(* NiftyOptionsChain.identify_expiries (chains.py:223-343).  A date is a   *)
(* record [year, month, day]; lists are sequences.                         *)
(***************************************************************************)
DateKey(d) == (d.year * 12 + d.month) * 32 + d.day
DateBefore(a, b) == DateKey(a) < DateKey(b)
MonthOf(d) == <<d.year, d.month>>

RECURSIVE SortedSeq(_)
\* sorted(set(...)), chains.py:233
SortedSeq(S) ==
    IF S = {} THEN <<>>
    ELSE LET least == CHOOSE d \in S : \A e \in S : ~ DateBefore(e, d)
         IN  <<least>> \o SortedSeq(S \ {least})

\* chains.py:244-246
NextMonthSameYear(today) == <<today.year, (today.month % 12) + 1>>
NextMonthOf(today) ==
    <<IF today.month < 12 THEN today.year ELSE today.year + 1,
      (today.month % 12) + 1>>

\* chains.py:274: the condition parses as
\*    (today < e.date()) if hasattr(e, 'date') else e
\* and a datetime.date, which has no attribute date, is true as a condition
BeforeMonthlyExpiry(today, current_monthly_expiry, has_date_attribute) ==
    IF has_date_attribute THEN DateBefore(today, current_monthly_expiry)
                          ELSE TRUE

\* chains.py:279
OnMonthlyExpiry(today, current_monthly_expiry, has_date_attribute) ==
    today = current_monthly_expiry

\* chains.py:259-292
MonthsToFetch(expiry_dates, today, has_date_attribute) ==
    LET current_month_expiries ==
            SelectSeq(expiry_dates, LAMBDA e : MonthOf(e) = MonthOf(today))
        current_monthly_expiry ==
            current_month_expiries[Len(current_month_expiries)]
    IN  IF current_month_expiries # <<>>
        THEN IF BeforeMonthlyExpiry(today, current_monthly_expiry,
                                    has_date_attribute)
             THEN <<MonthOf(today)>>
             ELSE IF OnMonthlyExpiry(today, current_monthly_expiry,
                                     has_date_attribute)
             THEN <<MonthOf(today), NextMonthOf(today)>>
             ELSE <<NextMonthOf(today)>>
        ELSE <<NextMonthOf(today)>>

\* chains.py:311-317: the months of the target expiries, in order of first
\* appearance
RECURSIVE MonthsSeen(_)
MonthsSeen(expiries) ==
    IF expiries = <<>> THEN <<>>
    ELSE LET rest == MonthsSeen(SubSeq(expiries, 1, Len(expiries) - 1))
             key == MonthOf(expiries[Len(expiries)])
         IN  IF key \in Range(rest) THEN rest ELSE Append(rest, key)

MonthlyFirst(month_expiries) == month_expiries[1]
\* chains.py:326 and 329, month_expiries[-1]
MonthlyOf(month_expiries) == month_expiries[Len(month_expiries)]

\* chains.py:324, month_expiries[:-1]
WeeklyOf(month_expiries) ==
    SubSeq(month_expiries, 1, Len(month_expiries) - 1)

\* chains.py:319-329: per month, all but the last expiry are weekly and the
\* last is monthly
RECURSIVE Classify(_, _)
Classify(month_keys, target_expiries) ==
    IF month_keys = <<>> THEN [weekly |-> <<>>, monthly |-> <<>>]
    ELSE LET month_expiries ==
                 SortSeq(SelectSeq(target_expiries,
                                   LAMBDA e : MonthOf(e) = Head(month_keys)),
                         DateBefore)
             rest == Classify(Tail(month_keys), target_expiries)
         IN  [weekly |-> WeeklyOf(month_expiries) \o rest.weekly,
              monthly |-> <<MonthlyOf(month_expiries)>> \o rest.monthly]

NoExpiries == [weekly |-> <<>>, monthly |-> <<>>]

\* chains.py:223-343; the result, or raised when `exp >= today` (line 251)
\* compares a datetime.datetime with a datetime.date
identify_expiries(expiries, today, has_date_attribute) ==
    LET expiry_dates == SortedSeq(expiries)
        future_expiries ==
            SelectSeq(expiry_dates, LAMBDA e : ~ DateBefore(e, today))
        months_to_fetch ==
            MonthsToFetch(expiry_dates, today, has_date_attribute)
        target_expiries ==
            SelectSeq(future_expiries,
                      LAMBDA e : MonthOf(e) \in Range(months_to_fetch))
        classified == Classify(MonthsSeen(target_expiries), target_expiries)
    IN  IF expiry_dates = <<>> THEN [raised |-> FALSE, value |-> NoExpiries]
        ELSE IF has_date_attribute
        THEN [raised |-> TRUE, value |-> NoExpiries]
        ELSE IF future_expiries = <<>>
        THEN [raised |-> FALSE, value |-> NoExpiries]
        ELSE IF target_expiries = <<>>
        THEN [raised |-> FALSE, value |-> NoExpiries]
        ELSE [raised |-> FALSE,
              value |-> [weekly |-> SortSeq(classified.weekly, DateBefore),
                         monthly |-> SortSeq(classified.monthly, DateBefore)]]

(***************************************************************************)
(* ExpirySpec: one call of identify_expiries.  today is a day of November  *)
(* or December; the expiry dates of the instrument list lie in the months  *)
(* from October to February of the next year.                              *)
(***************************************************************************)
Days == 1..MaxDay
Date(y, m, d) == [year |-> y, month |-> m, day |-> d]
TodayChoices == {Date(2025, m, d) : m \in {11, 12}, d \in Days}
ExpiryChoices ==
    {Date(2025, m, d) : m \in {10, 11, 12}, d \in Days}
    \cup {Date(2026, m, d) : m \in {1, 2}, d \in Days}
\* what the expiry of an instrument is: a datetime.date, as the broker's
\* client returns it, or a datetime.datetime, which has a date attribute
ExpiryTypes == {"date", "datetime"}

ExpiryInit ==
    /\ ex_pc = "call"
    /\ \E expiries \in SUBSET ExpiryChoices, today \in TodayChoices,
          expiry_type \in ExpiryTypes :
          /\ Cardinality(expiries) <= MaxExpiries
          /\ ex_in = [expiries |-> expiries, today |-> today,
                      expiry_type |-> expiry_type]
    /\ ex_out = NoExpiries
    /\ ChainIdle /\ SolverIdle /\ RunIdle /\ FetchIdle

IdentifyExpiries ==
    /\ ex_pc = "call"
    /\ \E result \in {identify_expiries(ex_in.expiries, ex_in.today,
                                        ex_in.expiry_type = "datetime")} :
          /\ ex_pc' = IF result.raised THEN "raised" ELSE "returned"
          /\ ex_out' = result.value
    /\ UNCHANGED <<ex_in, chainVars, solverVars, runVars, fetchVars>>

ExpiryNext == IdentifyExpiries

ExpirySpec == ExpiryInit /\ [][ExpiryNext]_vars

(***************************************************************************)
(* Properties of identify_expiries (ExpirySpec).                           *)
(***************************************************************************)
Returned == Range(ex_out.weekly) \cup Range(ex_out.monthly)

\* the expiries >= today of a set of months
FutureIn(months) ==
    {e \in ex_in.expiries : /\ ~ DateBefore(e, ex_in.today)
                            /\ MonthOf(e) \in months}

CurrentMonthExpiries ==
    {e \in ex_in.expiries : MonthOf(e) = MonthOf(ex_in.today)}

\* today compared with the last expiry of the current month: -1 before it,
\* 0 on it, 1 after it (there is one)
TodayAgainstMonthly ==
    LET last == CHOOSE d \in CurrentMonthExpiries :
                    \A e \in CurrentMonthExpiries : ~ DateBefore(d, e)
    IN  IF DateBefore(ex_in.today, last) THEN 0 - 1
        ELSE IF ex_in.today = last THEN 0 ELSE 1

\* C7 (as claimed): when today is the current month's monthly expiry, the
\* returned expiries are exactly the expiries >= today of the current and
\* the next month.
C7_OnExpiryDayCurrentAndNext ==
    (/\ ex_pc = "returned"
     /\ CurrentMonthExpiries # {}
     /\ TodayAgainstMonthly = 0)
        => Returned = FutureIn({MonthOf(ex_in.today), NextMonthOf(ex_in.today)})

\* C8 (as claimed): when today is after the current month's monthly expiry,
\* the returned expiries are exactly the expiries >= today of the next
\* month; when today is before it, exactly those of the current month.
C8_AfterExpiryNextMonthOnly ==
    (ex_pc = "returned" /\ CurrentMonthExpiries # {}) =>
        /\ TodayAgainstMonthly = 1
              => Returned = FutureIn({NextMonthOf(ex_in.today)})
        /\ TodayAgainstMonthly = 0 - 1
              => Returned = FutureIn({MonthOf(ex_in.today)})

\* the months the call selected, and the expiries >= today in them
SelectedMonths ==
    Range(MonthsToFetch(SortedSeq(ex_in.expiries), ex_in.today, FALSE))
SelectedExpiries == FutureIn(SelectedMonths)

Ascending(sq) ==
    \A a, b \in DOMAIN sq : a < b => DateBefore(sq[a], sq[b])

CalendarSuccessor(d) ==
    IF d.month = 12 THEN <<d.year + 1, 1>> ELSE <<d.year, d.month + 1>>

\* C17: when the instrument list has no expiry in the current calendar
\* month, the returned expiries are exactly the expiries >= today of the
\* next calendar month, January of the next year after a December.
C17_NoCurrentMonthNextOnly ==
    (ex_pc = "returned" /\ CurrentMonthExpiries = {}) =>
        Returned = FutureIn({CalendarSuccessor(ex_in.today)})

\* a call in December with no December expiry has returned a January
\* expiry of the next year and left out a February one
C17_Witness ==
    /\ ex_pc = "returned"
    /\ CurrentMonthExpiries = {}
    /\ ex_in.today.month = 12
    /\ \E e \in Returned : MonthOf(e) = <<ex_in.today.year + 1, 1>>
    /\ \E e \in ex_in.expiries : MonthOf(e) = <<ex_in.today.year + 1, 2>>

(***************************************************************************)
(* Properties of the solver (SolverSpec).                                  *)
(***************************************************************************)
\* an input that passes the precondition check of step 1
ValidSolverInput ==
    /\ sol_in.market_price > 0
    /\ sol_in.time_to_expiry > TimeFloor
    /\ sol_in.spot > 0
    /\ sol_in.strike > 0

\* the transitions of the state machine as spec.md 4.4 draws it (a state
\* may also stay where it is for another pass)
ClaimedEdges ==
    {<<"Initializing", "Iterating">>,
     <<"Iterating", "Iterating">>,
     <<"Iterating", "Converged">>,
     <<"Iterating", "FallbackBisection">>,
     <<"FallbackBisection", "FallbackBisection">>,
     <<"FallbackBisection", "Converged">>,
     <<"FallbackBisection", "Diverged">>}

\* one more pass is counted, or the run ends Diverged with its count kept
PassCounted ==
    \/ sol.state = "Initializing" /\ sol'.iterations = 0
    \/ sol.state # "Initializing" /\ sol'.iterations = sol.iterations + 1
    \/ sol'.state = "Diverged" /\ sol'.iterations = sol.iterations

\* a run is never stuck short of a terminal state, and never past the cap
BoundedRun ==
    ValidSolverInput =>
        /\ sol.iterations <= IterationCap
        /\ sol.state \in Terminal \/ ENABLED SolverNext

\* C10 (as claimed): from a valid input the solver moves only along
\* Initializing -> Iterating -> {Converged | FallbackBisection ->
\* {Converged | Diverged}}, ends within the iteration cap, and its result
\* carries the number of passes.
C10_ClaimedStateMachine ==
    /\ [][ValidSolverInput => <<sol.state, sol'.state>> \in ClaimedEdges]_vars
    /\ [][ValidSolverInput => PassCounted]_vars
    /\ []BoundedRun

\* C10 (amended): as claimed, with the transition Iterating -> Diverged that
\* step 6 makes when the cap is reached during the Newton-Raphson passes.
C10_StateMachine ==
    /\ [][ValidSolverInput =>
             <<sol.state, sol'.state>>
                 \in ClaimedEdges \cup {<<"Iterating", "Diverged">>}]_vars
    /\ [][ValidSolverInput => PassCounted]_vars
    /\ []BoundedRun

\* a run on a valid input has ended Diverged at the cap without ever
\* entering the bisection (the bracket is untouched)
C10_Witness ==
    /\ ValidSolverInput
    /\ sol.state = "Diverged"
    /\ sol.iterations = IterationCap
    /\ sol.lo = VolLower /\ sol.hi = VolUpper

\* the pricer at a volatility, for the contract of the run
PriceAt(sigma) ==
    price(sol_in.spot, sol_in.strike, sol_in.time_to_expiry, sigma,
          sol_in.risk_free_rate, sol_in.option_type)

\* the market price lies below (above) every price of the bracket
QuoteBelowBracket == PriceAt(VolLower) > sol_in.market_price
QuoteAboveBracket == PriceAt(VolUpper) < sol_in.market_price

\* C11: for a positive market price and a time to expiry above its floor
\* the solver never raises and returns an estimate; when the price at
\* 0.1 % volatility exceeds the market price the result is not converged
\* and its value is 0.001, when the price at 500 % is below the market
\* price it is not converged and its value is 5.0; a converged result
\* prices to within the tolerance of the market price.
C11_NeverRaisesOutOfRange ==
    ValidSolverInput =>
        /\ sol.state # "InvalidInput"
        /\ sol.state \in Terminal \/ ENABLED SolverNext
        /\ (sol.state \in Terminal /\ QuoteBelowBracket)
              => (sol.state = "Diverged" /\ sol.value = VolLower)
        /\ (sol.state \in Terminal /\ QuoteAboveBracket)
              => (sol.state = "Diverged" /\ sol.value = VolUpper)
        /\ sol.state = "Converged"
              => Abs(PriceAt(sol.value) - sol_in.market_price) < PriceTolerance

\* a run on a quote below the bracket has entered the bisection and ended
\* at the lower boundary
C11_Witness ==
    /\ ValidSolverInput
    /\ QuoteBelowBracket
    /\ sol.state = "Diverged"
    /\ sol.value = VolLower
    /\ sol.iterations < IterationCap

\* C12: in every solver run the seed, every iterate a Newton-Raphson update
\* or a bisection pass produces, and every value returned, lies in the
\* closed interval [0.001, 5.0].
C12_IteratesInBracket ==
    sol.state \in {"Iterating", "FallbackBisection"} \cup Terminal
        => (VolLower <= sol.value /\ sol.value <= VolUpper)

\* a Newton-Raphson update has been clamped to 5.0 and the run goes on
C12_Witness ==
    /\ ValidSolverInput
    /\ sol.state = "Iterating"
    /\ sol.iterations >= 1
    /\ sol.value = VolUpper
    /\ PriceAt(VolUpper) < sol_in.market_price

(***************************************************************************)
(* RunSpec: the two processing loops of NiftyOptionsChain.run              *)
(* (chains.py:566-690) over the lists identify_expiries returned.  What    *)
(* the body of a try does for one expiry is the subject of Spec; here it   *)
(* either completes or raises in one of its four calls.                    *)
(***************************************************************************)
\* the lists identify_expiries can return
RunLists ==
    {identify_expiries(expiries, today, FALSE).value :
        expiries \in {E \in SUBSET ExpiryChoices : Cardinality(E) <= MaxExpiries},
        today \in TodayChoices}

\* chains.py:616-627: the calls of a try body, any of which may raise
TryCalls == {"filter_options_by_expiry_and_strikes", "fetch_market_data",
             "build_options_chain", "export_to_csv"}
TryOutcomes == {"ok"} \cup TryCalls

\* chains.py:576-577
ExpiryList(kind) ==
    IF kind = "weekly" THEN weekly_expiries ELSE monthly_expiries

\* chains.py:584
total_expiries == Len(weekly_expiries) + Len(monthly_expiries)

AbortAfterExcept(kind) == "summary"
\* chains.py:641-643 and 679-681: the handler is inside the for loop, which
\* goes on with its next expiry
AfterExcept(kind) == kind

ExceptHandlerSilent(errors) == errors
\* chains.py:643 and 681, error_count += 1
ExceptHandler(errors) == errors + 1

\* the position of run inside the try statement of a loop
TryOf(kind) == IF kind = "weekly" THEN "try_weekly" ELSE "try_monthly"

\* chains.py:645 and 683: where run goes on when a for loop is exhausted
AfterLoop(kind) == IF kind = "weekly" THEN "monthly" ELSE "summary"

RunInit ==
    /\ run_pc = "identified"
    /\ \E lists \in RunLists :
          /\ weekly_expiries = lists.weekly
          /\ monthly_expiries = lists.monthly
    /\ expiry_pos = 0
    /\ current_idx = 0
    /\ created_files = <<>>
    /\ attempted = <<>>
    /\ ChainIdle /\ SolverIdle /\ ExpiryIdle /\ FetchIdle

chainRest == <<pc, strikes, instruments, spot_price, expiry_minus_now,
               time_to_expiry, quotes, idx, data, calls, csv>>

\* chains.py:575-595: no expiries, or the counters are set up
RunStart ==
    /\ run_pc = "identified"
    /\ run_pc' = IF weekly_expiries = <<>> /\ monthly_expiries = <<>>
                 THEN "returned" ELSE "weekly"
    /\ created_files' = <<>>
    /\ success_count' = 0
    /\ error_count' = 0
    /\ current_idx' = 0
    /\ UNCHANGED <<weekly_expiries, monthly_expiries, expiry_pos, attempted,
                   chainRest, solverVars, expiryVars, fetchVars>>

\* chains.py:608-612 and 646-650: a for loop takes its next expiry
LoopNext(kind) ==
    /\ run_pc = kind
    /\ expiry_pos < Len(ExpiryList(kind))
    /\ expiry_pos' = expiry_pos + 1
    /\ current_idx' = current_idx + 1
    /\ attempted' = Append(attempted, <<kind, ExpiryList(kind)[expiry_pos + 1]>>)
    /\ run_pc' = TryOf(kind)
    /\ UNCHANGED <<weekly_expiries, monthly_expiries, created_files,
                   success_count, error_count, chainRest, solverVars,
                   expiryVars, fetchVars>>

\* chains.py:614-643 and 652-681: the try statement for the expiry taken
LoopTry(kind) ==
    /\ run_pc = TryOf(kind)
    /\ \E outcome \in TryOutcomes :
          IF outcome = "ok"
          THEN /\ created_files' =
                      Append(created_files,
                             [type |-> kind,
                              expiry |-> ExpiryList(kind)[expiry_pos]])
               /\ success_count' = success_count + 1
               /\ error_count' = error_count
               /\ run_pc' = kind
          ELSE /\ error_count' = ExceptHandler(error_count)
               /\ run_pc' = AfterExcept(kind)
               /\ UNCHANGED <<created_files, success_count>>
    /\ UNCHANGED <<weekly_expiries, monthly_expiries, expiry_pos, current_idx,
                   attempted, chainRest, solverVars, expiryVars, fetchVars>>

\* a for loop is exhausted
LoopDone(kind) ==
    /\ run_pc = kind
    /\ expiry_pos = Len(ExpiryList(kind))
    /\ run_pc' = AfterLoop(kind)
    /\ expiry_pos' = 0
    /\ UNCHANGED <<weekly_expiries, monthly_expiries, current_idx,
                   created_files, attempted, chainVars, solverVars,
                   expiryVars, fetchVars>>

WeeklyNext == LoopNext("weekly")
WeeklyTry == LoopTry("weekly")
WeeklyDone == LoopDone("weekly")
MonthlyNext == LoopNext("monthly")
MonthlyTry == LoopTry("monthly")
MonthlyDone == LoopDone("monthly")

RunNext ==
    \/ RunStart
    \/ WeeklyNext
    \/ WeeklyTry
    \/ WeeklyDone
    \/ MonthlyNext
    \/ MonthlyTry
    \/ MonthlyDone

RunSpec == RunInit /\ [][RunNext]_vars

(***************************************************************************)
(* Properties of the processing loops (RunSpec).                           *)
(***************************************************************************)
\* every weekly expiry in list order, then every monthly expiry
FullOrder ==
    [n \in 1..total_expiries |->
        IF n <= Len(weekly_expiries)
        THEN <<"weekly", weekly_expiries[n]>>
        ELSE <<"monthly", monthly_expiries[n - Len(weekly_expiries)]>>]

RunEnded == run_pc \in {"summary", "returned"}
AtLoopHead == run_pc \in {"weekly", "monthly"}
InTry == run_pc \in {"try_weekly", "try_monthly"}

\* C14: whatever expiries have failed so far, the expiries the loops have
\* taken up are the first ones of "all weekly in order, then all monthly in
\* order", each taken once; run is never stopped before its summary, and at
\* the summary every expiry has been attempted.
C14_EveryExpiryAttemptedOnce ==
    /\ Len(attempted) <= total_expiries
    /\ attempted = SubSeq(FullOrder, 1, Len(attempted))
    /\ ~ RunEnded => ENABLED RunNext
    /\ run_pc = "summary" => attempted = FullOrder

\* run has reached its summary after its first weekly expiry failed and a
\* later weekly and a monthly expiry were exported
C14_Witness ==
    /\ run_pc = "summary"
    /\ Len(weekly_expiries) >= 2
    /\ error_count >= 1
    /\ \A n \in DOMAIN created_files :
          created_files[n].expiry # weekly_expiries[1]
    /\ \E n \in DOMAIN created_files : created_files[n].type = "weekly"
    /\ \E n \in DOMAIN created_files : created_files[n].type = "monthly"

batch_size == 500

\* numbers of instruments: around every multiple of batch_size
KeyCounts ==
    {n \in 0..(MaxBatches * batch_size + 1) :
        n % batch_size \in {0, 1, batch_size - 1}}

\* chains.py:360, the keys of n instruments with distinct trading symbols
InstrumentKeys(n) == [k \in 1..n |-> QuoteKey([tradingsymbol |-> k])]

BatchShort(keys, start) ==
    SubSeq(keys, start + 1, Min(start + batch_size - 1, Len(keys)))
\* chains.py:368, instrument_keys[i:i+batch_size]
Batch(keys, start) ==
    SubSeq(keys, start + 1, Min(start + batch_size, Len(keys)))

\* the quote kite.quote answers for a key
QuoteOf(key) == Traded(1 + (key[2] % 7))

\* what kite.quote(batch) may do: raise (None), answer a quote for every
\* key, or leave out a key it does not know (here the first of the batch)
KiteQuote(batch) ==
    {None,
     <<[key \in Range(batch) |-> QuoteOf(key)]>>,
     <<[key \in Range(Tail(batch)) |-> QuoteOf(key)]>>}

\* chains.py:371, all_quotes.update(quotes)
Update(d, quotes_answered) ==
    [key \in DOMAIN d \cup DOMAIN quotes_answered |->
        IF key \in DOMAIN quotes_answered THEN quotes_answered[key]
                                          ELSE d[key]]

FetchInit ==
    /\ fe_pc = "loop"
    /\ \E n \in KeyCounts : instrument_keys = InstrumentKeys(n)
    /\ batch_start = 0
    /\ all_quotes = EmptyDict
    /\ responses = <<>>
    /\ ChainIdle /\ SolverIdle /\ ExpiryIdle /\ RunIdle

\* chains.py:367-373, one pass of the loop: the request, and the update or
\* the handler
FetchBatch ==
    /\ fe_pc = "loop"
    /\ batch_start < Len(instrument_keys)
    /\ \E batch \in {Batch(instrument_keys, batch_start)} :
       \E answer \in KiteQuote(batch) :
          /\ responses' = Append(responses,
                                 [batch |-> batch, answer |-> answer])
          /\ all_quotes' = IF answer = None THEN all_quotes
                           ELSE Update(all_quotes, answer[1])
    /\ batch_start' = batch_start + batch_size
    /\ UNCHANGED <<fe_pc, instrument_keys, chainVars, solverVars, expiryVars,
                   runVars>>

\* chains.py:375-376, the range is exhausted: return all_quotes
FetchReturn ==
    /\ fe_pc = "loop"
    /\ batch_start >= Len(instrument_keys)
    /\ fe_pc' = "returned"
    /\ UNCHANGED <<instrument_keys, batch_start, all_quotes, responses,
                   chainVars, solverVars, expiryVars, runVars>>

FetchNext == FetchBatch \/ FetchReturn

FetchSpec == FetchInit /\ [][FetchNext]_vars

(***************************************************************************)
(* Properties of fetch_market_data (FetchSpec).                            *)
(***************************************************************************)
RECURSIVE BatchesJoined(_)
BatchesJoined(log) ==
    IF log = <<>> THEN <<>>
    ELSE BatchesJoined(SubSeq(log, 1, Len(log) - 1)) \o log[Len(log)].batch

Succeeded == {b \in DOMAIN responses : responses[b].answer # None}

\* C18: the requests are for consecutive slices of at most 500 keys, none
\* empty; a request that raises does not end the loop; at the return every
\* key has been requested in exactly one batch, and the mapping returned
\* holds exactly the quotes answered for the batches that did not raise.
C18_BatchesCoverKeysOnce ==
    /\ \A b \in DOMAIN responses :
          /\ Len(responses[b].batch) \in 1..batch_size
          /\ responses[b].batch =
                SubSeq(instrument_keys, (b - 1) * batch_size + 1,
                       Min(b * batch_size, Len(instrument_keys)))
    /\ fe_pc = "loop" => ENABLED FetchNext
    /\ fe_pc = "returned" =>
          /\ BatchesJoined(responses) = instrument_keys
          /\ DOMAIN all_quotes =
                UNION {DOMAIN responses[b].answer[1] : b \in Succeeded}
          /\ \A b \in Succeeded :
                \A key \in DOMAIN responses[b].answer[1] :
                   all_quotes[key] = responses[b].answer[1][key]

\* a call has returned after a full batch answered, a batch that raised,
\* and a last, shorter batch that answered
C18_Witness ==
    /\ fe_pc = "returned"
    /\ Len(responses) >= 3
    /\ responses[1].answer # None
    /\ responses[2].answer = None
    /\ responses[Len(responses)].answer # None
    /\ Len(responses[Len(responses)].batch) < batch_size
    /\ Len(responses[1].batch) = batch_size

====
